---- MODULE Spec2Model ----
(***************************************************************************)
(* A model of the price simulator of archelon-genesis                      *)
(* (src/services/simulation/price_simulator.py) and of the request layer   *)
(* in front of it (src/api/routers/market_data.py).                        *)
(*                                                                         *)
(* The specifications of the module share one list of variables:          *)
(*   SpecGen      one call of PriceSimulator._generate_price_points,       *)
(*                statement by statement, over every candle of GenCandles  *)
(*                and every num_points in 0..MaxNumPoints;                 *)
(*   SpecGenLong  the same call on a path of LongNumPoints points;         *)
(*   Spec         a simulator instance, its state file and the candle      *)
(*                files: get_current_price, reset_simulation and the       *)
(*                construction of a new instance over the same state file; *)
(*   SpecStore    the same over a store whose writes fail and whose file   *)
(*                is damaged between requests;                             *)
(*   SpecLoad     _load_candle_data over every set of candle files;        *)
(*   SpecRetry    one call of a function wrapped by retry                  *)
(*                (src/services/utils/retry_decorator.py);                 *)
(*   SpecHealth   one call of a method wrapped by binance_health_check     *)
(*                (src/services/utils/health_decorator.py);                *)
(*   SpecRace     requests of the API that overlap, each with a simulator  *)
(*                of its own over the shared state file.                   *)
(*                                                                         *)
(* Prices are integers that count units of 0.0001, so that round(x, 3) is  *)
(* a real rounding (to a multiple of 10 units).  A random.uniform(-0.1,    *)
(* 0.1) draw is a percentage taken from a small set.  Times are epoch      *)
(* milliseconds.                                                           *)
(***************************************************************************)
EXTENDS Integers, Sequences, FiniteSets, TLC

VARIABLES
    \* ---- one call of _generate_price_points (SpecGen) ----
    candle,         \* the candle argument
    num_points,     \* the num_points argument
    gpc,            \* where the call is: "start", "draw", "redraw", "done", "raised"
    high_idx,       \* local high_idx (0 before it is drawn)
    low_idx,        \* local low_idx (0 before it is drawn)
    price_points,   \* the returned list (<<>> until the call returns)
    raised,         \* the exception the call ended with ("" when none)
    \* ---- a simulator instance and its files (Spec) ----
    state,          \* PriceSimulator.state, the in-memory dictionary
    file,           \* the state file: whether it exists, and its JSON content
    result,         \* what the last request returned
    fresh,          \* TRUE while the instance has served no request since __init__
    calls,          \* per key: get_current_price calls that found candle data since the
                    \* last reset of the key, and the cursor the last of them reported
    \* ---- one call of _load_candle_data over some data directory (SpecLoad) ----
    data_dir,       \* the candle files that exist: path -> rows
    loaded_df,      \* the arguments of the last call and what it returned
    \* ---- one call of a function wrapped by retry or binance_health_check ----
    max_retries,    \* the decorator's max_retries argument
    delay,          \* the decorator's delay argument, in seconds
    attempts,       \* retry: attempts; binance_health_check: attempt
    wpc,            \* where the wrapper is: "idle", "loop", "try", "func", "except", "done"
    caught,         \* the exception the except clause handles (NoException when none)
    events,         \* what the wrapper has called so far, in order
    ended,          \* how the wrapper call ended (NotEnded until it ends)
    \* ---- requests of the API that overlap (SpecRace) ----
    reqs,           \* per request slot: the request, its simulator instance, its position
    log             \* the requests that have finished, in the order of their end

gen_vars == <<candle, num_points, gpc, high_idx, low_idx, price_points, raised>>
sim_vars == <<state, file, result, fresh, calls>>
load_vars == <<data_dir, loaded_df>>
dec_vars == <<max_retries, delay, attempts, wpc, caught, events, ended>>
race_vars == <<reqs, log>>
vars == <<candle, num_points, gpc, high_idx, low_idx, price_points, raised,
          state, file, result, fresh, calls, data_dir, loaded_df,
          max_retries, delay, attempts, wpc, caught, events, ended,
          reqs, log>>

(***************************************************************************)
(* Bounds of the model.                                                    *)
(***************************************************************************)
\* SpecGen explores num_points = 0 .. MaxNumPoints.
MaxNumPoints == 6
\* The num_points get_current_price generates with (the code's default is 60).
NumPoints == 4
\* No get_current_price is taken once this many points are recorded as returned.
MaxReturned == 9

(***************************************************************************)
(* Arithmetic.                                                             *)
(***************************************************************************)
Abs(x) == IF x < 0 THEN -x ELSE x

Min(a, b) == IF a < b THEN a ELSE b

Max(a, b) == IF a > b THEN a ELSE b

\* round(x, 3): the nearest multiple of 0.001, which is 10 price units.
Round3(x) == ((x + 5) \div 10) * 10

\* random.uniform(-0.1, 0.1), in percent.
Jitters == {-10, 0, 10}

\* A slip: the draw is not scaled by the span of the segment.
JitterUnscaled(j, span) == j * 100

\* random.uniform(-0.1, 0.1) * span for a draw of j percent.
Jitter(j, span) == (j * span) \div 100

(***************************************************************************)
(* Candles.                                                                *)
(***************************************************************************)
Candle(t, ct, o, h, l, c) ==
    [time |-> t, close_time |-> ct, open |-> o, high |-> h, low |-> l, close |-> c]

\* The candles SpecGen is run on: the scenario of the documentation
\* (10 / 15 / 8 / 12), a candle whose low is 0, one whose open and low are 0,
\* one whose prices have four decimals, a flat one at 100.0 and a flat one
\* with four decimals.
GenCandles ==
    { Candle(0, 3600000, 100000, 150000, 80000, 120000),
      Candle(0, 3600000, 10000, 20000, 0, 10000),
      Candle(0, 3600000, 0, 10000, 0, 5000),
      Candle(3600000, 7200000, 101234, 101999, 100001, 101005),
      Candle(0, 3600000, 1000000, 1000000, 1000000, 1000000),
      Candle(0, 3600000, 1001234, 1001234, 1001234, 1001234) }

\* The invariant the candle source keeps.
WellFormed(c) ==
    /\ c.low <= Min(c.open, c.close)
    /\ Max(c.open, c.close) <= c.high
    /\ c.time < c.close_time

(***************************************************************************)
(* _generate_price_points, as operators.                                   *)
(***************************************************************************)
\* timestamps[i], in milliseconds.
Timestamp(c, n, i) == c.time + (i * (c.close_time - c.time)) \div (n - 1)

\* A slip in the bounds of the draw: random.randint(0, num_points - 1).
IndexRangeWithEnds(n) == 0 .. (n - 1)

\* The range random.randint(1, num_points - 2) draws from.
IndexRange(n) == 1 .. (n - 2)

\* prices = [0] * num_points, then the four anchors in the order the code
\* assigns them: a later assignment to the same index wins.
Anchors(c, n, hi, lo) ==
    [i \in 0 .. (n - 1) |->
        IF i = lo THEN c.low
        ELSE IF i = hi THEN c.high
        ELSE IF i = n - 1 THEN c.close
        ELSE IF i = 0 THEN c.open
        ELSE 0]

\* "From open to high": every index of range(1, high_idx) still holding 0.
FillOpenToHigh(p, c, hi, jit) ==
    [i \in DOMAIN p |->
        IF i \in 1 .. (hi - 1) /\ p[i] = 0
        THEN c.open + (i * (c.high - c.open)) \div hi + Jitter(jit[i], c.high - c.open)
        ELSE p[i]]

\* "From high to low (or low to high)": range(min_idx + 1, max_idx).
FillBetweenExtremes(p, hi, lo, jit) ==
    LET min_idx == Min(hi, lo)
        max_idx == Max(hi, lo)
        start_price == p[min_idx]
        end_price == p[max_idx]
    IN  [i \in DOMAIN p |->
            IF min_idx < max_idx - 1 /\ i \in (min_idx + 1) .. (max_idx - 1) /\ p[i] = 0
            THEN start_price
                 + ((i - min_idx) * (end_price - start_price)) \div (max_idx - min_idx)
                 + Jitter(jit[i], Abs(end_price - start_price))
            ELSE p[i]]

\* "From last extreme to close": range(last_extreme_idx + 1, num_points - 1).
FillToClose(p, c, n, hi, lo, jit) ==
    LET last_extreme_idx == Max(hi, lo)
        last_price == p[last_extreme_idx]
    IN  [i \in DOMAIN p |->
            IF last_extreme_idx < n - 1 /\ i \in (last_extreme_idx + 1) .. (n - 2) /\ p[i] = 0
            THEN last_price
                 + ((i - last_extreme_idx) * (c.close - last_price)) \div (n - 1 - last_extreme_idx)
                 + Jitter(jit[i], Abs(c.close - last_price))
            ELSE p[i]]

\* The prices list once the three loops have run.
Prices(c, n, hi, lo, jit) ==
    FillToClose(FillBetweenExtremes(FillOpenToHigh(Anchors(c, n, hi, lo), c, hi, jit),
                                    hi, lo, jit),
                c, n, hi, lo, jit)

\* One entry of price_points.
PricePoint(c, n, hi, lo, prices, i) ==
    [timestamp |-> Timestamp(c, n, i),
     price |-> Round3(prices[i]),
     is_high |-> (i = hi),
     is_low |-> (i = lo),
     is_open |-> (i = 0),
     is_close |-> (i = n - 1),
     point_index |-> i,
     total_points |-> n]

\* The list _generate_price_points returns for the draws hi, lo and jit
\* (element k of the sequence is the point of index k - 1).
GeneratePricePoints(c, n, hi, lo, jit) ==
    LET prices == Prices(c, n, hi, lo, jit)
    IN  [k \in 1 .. n |-> PricePoint(c, n, hi, lo, prices, k - 1)]

(***************************************************************************)
(* SpecGen: one call of _generate_price_points, statement by statement.    *)
(***************************************************************************)
\* No call of _load_candle_data on its own is made in SpecGen and Spec.
NotLoaded == [symbol |-> "", interval |-> "", df |-> [found |-> FALSE, rows |-> <<>>]]

LoadIdle ==
    /\ data_dir = <<>>
    /\ loaded_df = NotLoaded

\* No exception.
NoException == [type |-> "", of |-> 0]

\* The wrapper call has not ended.
NotEnded == [kind |-> "", value |-> 0, exc |-> NoException]

\* No wrapped function is called outside SpecRetry and SpecHealth.
DecIdle ==
    /\ max_retries = 0
    /\ delay = 0
    /\ attempts = 0
    /\ wpc = "idle"
    /\ caught = NoException
    /\ events = <<>>
    /\ ended = NotEnded

\* No requests overlap outside SpecRace.
RaceIdle ==
    /\ reqs = <<>>
    /\ log = <<>>

\* The simulator's variables stand still in SpecGen.
SimIdle ==
    /\ state = <<>>
    /\ file = <<>>
    /\ result = <<>>
    /\ fresh = FALSE
    /\ calls = <<>>

InitGen ==
    /\ candle \in GenCandles
    /\ num_points \in 0 .. MaxNumPoints
    /\ gpc = "start"
    /\ high_idx = 0
    /\ low_idx = 0
    /\ price_points = <<>>
    /\ raised = ""
    /\ SimIdle
    /\ LoadIdle
    /\ DecIdle
    /\ RaceIdle

\* timestamps = [... / (num_points - 1) for i in range(num_points)]:
\* with one point the only iteration divides by zero.
GenTimestamps ==
    /\ gpc = "start"
    /\ IF num_points = 1
       THEN gpc' = "raised" /\ raised' = "ZeroDivisionError"
       ELSE gpc' = "draw" /\ UNCHANGED raised
    /\ UNCHANGED <<candle, num_points, high_idx, low_idx, price_points>>
    /\ UNCHANGED sim_vars
    /\ UNCHANGED load_vars
    /\ UNCHANGED dec_vars
    /\ UNCHANGED race_vars

\* high_idx = random.randint(1, num_points - 2), then low_idx likewise:
\* randint raises ValueError on an empty range.
GenDraw ==
    /\ gpc = "draw"
    /\ IF IndexRange(num_points) = {}
       THEN /\ gpc' = "raised"
            /\ raised' = "ValueError"
            /\ UNCHANGED <<high_idx, low_idx>>
       ELSE /\ gpc' = "redraw"
            /\ high_idx' \in IndexRange(num_points)
            /\ low_idx' \in IndexRange(num_points)
            /\ UNCHANGED raised
    /\ UNCHANGED <<candle, num_points, price_points>>
    /\ UNCHANGED sim_vars
    /\ UNCHANGED load_vars
    /\ UNCHANGED dec_vars
    /\ UNCHANGED race_vars

\* One turn of "while high_idx == low_idx: low_idx = random.randint(...)".
GenRedraw ==
    /\ gpc = "redraw"
    /\ high_idx = low_idx
    /\ low_idx' \in IndexRange(num_points)
    /\ UNCHANGED <<candle, num_points, gpc, high_idx, price_points, raised>>
    /\ UNCHANGED sim_vars
    /\ UNCHANGED load_vars
    /\ UNCHANGED dec_vars
    /\ UNCHANGED race_vars

\* The loop is left: the anchors, the three filling loops, the list of points.
GenFill ==
    /\ gpc = "redraw"
    /\ high_idx # low_idx
    /\ \E jit \in [IndexRange(num_points) -> Jitters] :
           price_points' = GeneratePricePoints(candle, num_points, high_idx, low_idx, jit)
    /\ gpc' = "done"
    /\ UNCHANGED <<candle, num_points, high_idx, low_idx, raised>>
    /\ UNCHANGED sim_vars
    /\ UNCHANGED load_vars
    /\ UNCHANGED dec_vars
    /\ UNCHANGED race_vars

NextGen ==
    \/ GenTimestamps
    \/ GenDraw
    \/ GenRedraw
    \/ GenFill

\* The interpreter runs a call that can take a step.
SpecGen == InitGen /\ [][NextGen]_vars /\ WF_vars(NextGen)

(***************************************************************************)
(* The candle files of the data directory.                                 *)
(***************************************************************************)
\* The (symbol, interval) pairs requests are made for.
Requests == { <<"AVAXUSDT", "1h">>, <<"BTCUSDT", "1h">>, <<"ETHUSDT", "4h">> }

\* key = f"{symbol}_{interval}"
Key(symbol, interval) == <<symbol, interval>>

Keys == { Key(req[1], req[2]) : req \in Requests }

\* os.path.join(data_dir, f"{symbol}_{window}_{interval}.csv")
CandlePath(symbol, window, interval) == <<symbol, window, interval>>

\* The files present, each with its rows: AVAXUSDT 1h has a recent file of two
\* candles and an older one, BTCUSDT 1h has only the two oldest windows,
\* ETHUSDT 4h has no file.
CandleFiles ==
    (CandlePath("AVAXUSDT", "recent", "1h") :>
        << Candle(0, 3600000, 100000, 150000, 80000, 120000),
           Candle(3600000, 7200000, 120000, 130000, 110000, 115000) >>)
    @@ (CandlePath("AVAXUSDT", "1year_ago", "1h") :>
        << Candle(0, 3600000, 30000, 40000, 20000, 35000) >>)
    @@ (CandlePath("BTCUSDT", "2years_ago", "1h") :>
        << Candle(0, 3600000, 2000000, 2100000, 1900000, 2050000) >>)
    @@ (CandlePath("BTCUSDT", "3years_ago", "1h") :>
        << Candle(0, 3600000, 500000, 600000, 400000, 550000),
           Candle(3600000, 7200000, 550000, 560000, 540000, 545000) >>)

\* os.path.exists of a candle file.
FileExists(path) == path \in DOMAIN CandleFiles

\* The windows tried, in this order, when the recent file is missing.
FallbackWindows == <<"1year_ago", "2years_ago", "3years_ago">>

\* A slip that hands back an empty frame where there is no file.
LoadCandleDataEmptyFrame(symbol, interval) ==
    LET recent == CandlePath(symbol, "recent", interval)
    IN  IF FileExists(recent)
        THEN [found |-> TRUE, rows |-> CandleFiles[recent]]
        ELSE [found |-> TRUE, rows |-> <<>>]

\* A slip: the loop over the windows has no break, the last existing one wins.
LoadCandleDataInLastWins(dir, symbol, interval) ==
    LET recent == CandlePath(symbol, "recent", interval)
        alts == {i \in 1 .. Len(FallbackWindows) :
                    CandlePath(symbol, FallbackWindows[i], interval) \in DOMAIN dir}
        last == CHOOSE i \in alts : \A j \in alts : i >= j
        file_path == IF recent \notin DOMAIN dir /\ alts # {}
                     THEN CandlePath(symbol, FallbackWindows[last], interval)
                     ELSE recent
    IN  IF file_path \in DOMAIN dir
        THEN [found |-> TRUE, rows |-> dir[file_path]]
        ELSE [found |-> FALSE, rows |-> <<>>]

\* _load_candle_data over the data directory dir (path -> rows): the rows of
\* the chosen file, or None (found = FALSE).
LoadCandleDataIn(dir, symbol, interval) ==
    LET recent == CandlePath(symbol, "recent", interval)
        alts == {i \in 1 .. Len(FallbackWindows) :
                    CandlePath(symbol, FallbackWindows[i], interval) \in DOMAIN dir}
        first == CHOOSE i \in alts : \A j \in alts : i <= j
        file_path == IF recent \notin DOMAIN dir /\ alts # {}
                     THEN CandlePath(symbol, FallbackWindows[first], interval)
                     ELSE recent
    IN  IF file_path \in DOMAIN dir
        THEN [found |-> TRUE, rows |-> dir[file_path]]
        ELSE [found |-> FALSE, rows |-> <<>>]

\* _load_candle_data over the candle files of the simulator.
LoadCandleData(symbol, interval) == LoadCandleDataIn(CandleFiles, symbol, interval)

(***************************************************************************)
(* The state dictionary and the state file.                                *)
(***************************************************************************)
\* Python's None in memory.
None == "None"

\* An empty dict.
EmptyDict == [x \in {} |-> 0]

\* d[k] = v
Put(d, k, v) == (k :> v) @@ d

\* del d[k]
Del(d, k) == [x \in DOMAIN d \ {k} |-> d[x]]

\* The default state of _load_state.
DefaultState ==
    [current_candle_index |-> 0,
     current_timestamp |-> None,
     current_symbol |-> "AVAXUSDT",
     current_interval |-> "1h",
     price_points_returned |-> EmptyDict,
     high_touched |-> EmptyDict,
     low_touched |-> EmptyDict,
     simulation_progress |-> EmptyDict]

\* json.dump of a bool, and json.load of it.
JsonBool(b) == IF b THEN "true" ELSE "false"

PyBool(j) == (j = "true")

\* json.dump of a list of price points, and json.load of it.
JsonPoints(pts) ==
    [i \in 1 .. Len(pts) |->
        [pts[i] EXCEPT !.is_high = JsonBool(@), !.is_low = JsonBool(@),
                       !.is_open = JsonBool(@), !.is_close = JsonBool(@)]]

PyPoints(js) ==
    [i \in 1 .. Len(js) |->
        [js[i] EXCEPT !.is_high = PyBool(@), !.is_low = PyBool(@),
                      !.is_open = PyBool(@), !.is_close = PyBool(@)]]

\* json.dump(state, f): None is written null, True and False true and false.
JsonDump(s) ==
    [current_candle_index |-> s.current_candle_index,
     current_timestamp |-> IF s.current_timestamp = None THEN "null" ELSE s.current_timestamp,
     current_symbol |-> s.current_symbol,
     current_interval |-> s.current_interval,
     price_points_returned |->
        [k \in DOMAIN s.price_points_returned |-> JsonPoints(s.price_points_returned[k])],
     high_touched |-> [k \in DOMAIN s.high_touched |-> JsonBool(s.high_touched[k])],
     low_touched |-> [k \in DOMAIN s.low_touched |-> JsonBool(s.low_touched[k])],
     simulation_progress |->
        [k \in DOMAIN s.simulation_progress |->
            [candle_index |-> s.simulation_progress[k].candle_index,
             point_index |-> s.simulation_progress[k].point_index,
             total_candles |-> s.simulation_progress[k].total_candles,
             price_points |-> JsonPoints(s.simulation_progress[k].price_points)]]]

\* The text of a file that is not a JSON document (cut short, empty, garbage).
BadJson == [syntax_error |-> TRUE]

\* The members every state dictionary written by _save_state has.
StateMembers ==
    {"current_candle_index", "current_timestamp", "current_symbol", "current_interval",
     "price_points_returned", "high_touched", "low_touched", "simulation_progress"}

\* json.load(f): a document that is not a state dictionary, such as {}, loads
\* as what it is.
JsonLoad(j) ==
    IF ~(StateMembers \subseteq DOMAIN j) THEN j ELSE
    [current_candle_index |-> j.current_candle_index,
     current_timestamp |-> IF j.current_timestamp = "null" THEN None ELSE j.current_timestamp,
     current_symbol |-> j.current_symbol,
     current_interval |-> j.current_interval,
     price_points_returned |->
        [k \in DOMAIN j.price_points_returned |-> PyPoints(j.price_points_returned[k])],
     high_touched |-> [k \in DOMAIN j.high_touched |-> PyBool(j.high_touched[k])],
     low_touched |-> [k \in DOMAIN j.low_touched |-> PyBool(j.low_touched[k])],
     simulation_progress |->
        [k \in DOMAIN j.simulation_progress |->
            [candle_index |-> j.simulation_progress[k].candle_index,
             point_index |-> j.simulation_progress[k].point_index,
             total_candles |-> j.simulation_progress[k].total_candles,
             price_points |-> PyPoints(j.simulation_progress[k].price_points)]]]

\* No state file yet.
NoFile == [exists |-> FALSE, content |-> ""]

\* A slip in _save_state: the buffers of generated points are left out.
SaveStateWithoutBuffers(s) ==
    [exists |-> TRUE,
     content |-> JsonDump([s EXCEPT !.simulation_progress =
                    [k \in DOMAIN @ |-> [@[k] EXCEPT !.price_points = <<>>]]])]

\* _save_state: the file after a successful write.
SaveState(s) == [exists |-> TRUE, content |-> JsonDump(s)]

\* What a write of the state file can come to: it succeeds, it fails before
\* the file is opened for writing, or it fails after open(..., 'w') emptied it.
WriteOutcomes == {"written", "open_failed", "dump_failed"}

\* _save_state with the outcome w of the write; the except clause logs and
\* returns in both failures.
WriteState(f, s, w) ==
    IF w = "written" THEN SaveState(s)
    ELSE IF w = "open_failed" THEN f
    ELSE [exists |-> TRUE, content |-> BadJson]

\* _load_state with the outcome w of the write of the default state: a file
\* that json.load accepts is returned as loaded, whatever it holds.
LoadStateW(f, w) ==
    IF f.exists /\ f.content # BadJson
    THEN [state |-> JsonLoad(f.content), file |-> f]
    ELSE [state |-> DefaultState, file |-> WriteState(f, DefaultState, w)]

\* _load_state: the loaded state and the file it leaves.
LoadState(f) == LoadStateW(f, "written")


(***************************************************************************)
(* get_current_price and reset_simulation.                                 *)
(***************************************************************************)
\* The outcomes of the draws of one _generate_price_points(candle) call that
\* get_current_price makes.  The runs of Spec take the two orders of the
\* extremes, high first and low first, at the outermost interior indices and
\* with no jitter; SpecGen explores every draw.
Draws ==
    {d \in [high_idx : IndexRange(NumPoints), low_idx : IndexRange(NumPoints),
            jit : [IndexRange(NumPoints) -> {0}]] :
        /\ d.high_idx # d.low_idx
        /\ {d.high_idx, d.low_idx} = {1, NumPoints - 2}}

\* The draws of a call that is made (all of them) or not made (a fixed one).
DrawsIf(made) == IF made THEN Draws ELSE {CHOOSE d \in Draws : TRUE}

\* self._generate_price_points(candle), num_points left at its default.
Generate(c, d) == GeneratePricePoints(c, NumPoints, d.high_idx, d.low_idx, d.jit)

\* "Initialize state for this key if needed".
InitKeyState(s, key, total_candles) ==
    [s EXCEPT
        !.price_points_returned = IF key \in DOMAIN @ THEN @ ELSE Put(@, key, <<>>),
        !.high_touched = IF key \in DOMAIN @ THEN @ ELSE Put(@, key, FALSE),
        !.low_touched = IF key \in DOMAIN @ THEN @ ELSE Put(@, key, FALSE),
        !.simulation_progress =
            IF key \in DOMAIN @ THEN @
            ELSE Put(@, key, [candle_index |-> 0, point_index |-> 0,
                              total_candles |-> total_candles, price_points |-> <<>>])]

\* "Reset to the beginning if we've gone through all candles" (on entry).
RewindIfPastEnd(progress, total) ==
    IF progress.candle_index >= total
    THEN [progress EXCEPT !.candle_index = 0, !.point_index = 0, !.price_points = <<>>]
    ELSE progress

\* The state once the key is initialised and rewound.
Prepared(s, key, df) ==
    LET s1 == InitKeyState(s, key, Len(df))
    IN  [s1 EXCEPT !.simulation_progress[key] = RewindIfPastEnd(@, Len(df))]

\* df.iloc[candle_index] does not raise IndexError.
IlocOk(df, candle_index) == candle_index \in 0 .. (Len(df) - 1)

\* A slip: every exhausted candle is followed by candle 0.
NextCandleIndexRestarts(candle_index, total) == 0

\* A slip: no wrap after the last candle.
NextCandleIndexNoWrap(candle_index, total) == candle_index + 1

\* "Move to the next candle", "Reset to the beginning" past the last one.
NextCandleIndex(candle_index, total) ==
    IF candle_index + 1 >= total THEN 0 ELSE candle_index + 1

\* A slip: the point index is stored as it was read.
RecordPointStays(s, key, price_point, point_index) ==
    [s EXCEPT
        !.high_touched[key] = IF price_point.is_high THEN TRUE ELSE @,
        !.low_touched[key] = IF price_point.is_low THEN TRUE ELSE @,
        !.price_points_returned[key] = Append(@, price_point),
        !.simulation_progress[key].point_index = point_index]

\* A slip: the point index is advanced by two.
RecordPointSkips(s, key, price_point, point_index) ==
    [s EXCEPT
        !.high_touched[key] = IF price_point.is_high THEN TRUE ELSE @,
        !.low_touched[key] = IF price_point.is_low THEN TRUE ELSE @,
        !.price_points_returned[key] = Append(@, price_point),
        !.simulation_progress[key].point_index = point_index + 2]

\* A slip: the list of returned points starts again with every new candle.
RecordPointRestartsHistory(s, key, price_point, point_index) ==
    [s EXCEPT
        !.high_touched[key] = IF price_point.is_high THEN TRUE ELSE @,
        !.low_touched[key] = IF price_point.is_low THEN TRUE ELSE @,
        !.price_points_returned[key] =
            IF point_index = 0 THEN <<price_point>> ELSE Append(@, price_point),
        !.simulation_progress[key].point_index = point_index + 1]

\* A slip: the touched flags are left as they are.
RecordPointNoFlags(s, key, price_point, point_index) ==
    [s EXCEPT
        !.price_points_returned[key] = Append(@, price_point),
        !.simulation_progress[key].point_index = point_index + 1]

\* "Update high/low touched state", "Add to returned price points",
\* "Increment point index for next call".
RecordPoint(s, key, price_point, point_index) ==
    [s EXCEPT
        !.high_touched[key] = IF price_point.is_high THEN TRUE ELSE @,
        !.low_touched[key] = IF price_point.is_low THEN TRUE ELSE @,
        !.price_points_returned[key] = Append(@, price_point),
        !.simulation_progress[key].point_index = point_index + 1]

\* The call raised: the dictionary as mutated so far, nothing returned.
Failure(s, exception) ==
    [outcome |-> "raised", raised |-> exception, state |-> s,
     candle_index |-> 0, point_index |-> 0, generated |-> FALSE]

\* The body of get_current_price once the candle data is loaded, with d1 the
\* draws of the generation for an empty buffer and d2 those of the generation
\* for an exhausted one.
Serve(s, key, df, d1, d2) ==
    LET s2 == Prepared(s, key, df)
        ci2 == s2.simulation_progress[key].candle_index
    IN  IF ~IlocOk(df, ci2) THEN Failure(s2, "IndexError")
        ELSE
        LET needs == s2.simulation_progress[key].price_points = <<>>
            s3 == IF needs
                  THEN [s2 EXCEPT !.simulation_progress[key].price_points =
                                        Generate(df[ci2 + 1], d1)]
                  ELSE s2
            p3 == s3.simulation_progress[key]
            exhausted == p3.point_index >= Len(p3.price_points)
            ci3 == IF exhausted THEN NextCandleIndex(ci2, Len(df)) ELSE ci2
        IN  IF ~IlocOk(df, ci3)
            THEN Failure([s3 EXCEPT !.simulation_progress[key].candle_index = ci3,
                                    !.simulation_progress[key].point_index = 0],
                         "IndexError")
            ELSE
            LET s4 == IF exhausted
                      THEN [s3 EXCEPT !.simulation_progress[key] =
                                [@ EXCEPT !.candle_index = ci3, !.point_index = 0,
                                          !.price_points = Generate(df[ci3 + 1], d2)]]
                      ELSE s3
                point_index == IF exhausted THEN 0 ELSE p3.point_index
                pts == s4.simulation_progress[key].price_points
            IN  IF point_index + 1 \notin 1 .. Len(pts) THEN Failure(s4, "IndexError")
                ELSE [outcome |-> "ok", raised |-> "",
                      state |-> RecordPoint(s4, key, pts[point_index + 1], point_index),
                      candle_index |-> ci3, point_index |-> point_index,
                      generated |-> (needs \/ exhausted)]

\* Whether Serve generates for an empty buffer, and for an exhausted one.
NeedsPoints(s, key, df) == Prepared(s, key, df).simulation_progress[key].price_points = <<>>

Exhausted(s, key, df) ==
    LET p == Prepared(s, key, df).simulation_progress[key]
    IN  p.point_index >= (IF p.price_points = <<>> THEN NumPoints ELSE Len(p.price_points))

\* The cursor of a key as a reset finds it.
NoCursor == [had |-> FALSE, candle_index |-> 0, point_index |-> 0]

CursorOf(s, key) ==
    IF key \in DOMAIN s.simulation_progress
    THEN [had |-> TRUE, candle_index |-> s.simulation_progress[key].candle_index,
          point_index |-> s.simulation_progress[key].point_index]
    ELSE NoCursor

\* The routes of market_data.py: 404 for an error result, 500 for an exception.
HttpStatus(outcome) ==
    IF outcome = "error" THEN 404 ELSE IF outcome = "raised" THEN 500 ELSE 200

\* What a request returned.  op, symbol, interval name the request; outcome is
\* "ok", "error" (the error dictionary) or "raised"; the other fields are those
\* of the returned dictionary.  Five fields are bookkeeping of the model:
\* generated (the call ran _generate_price_points), after_reset (the previous
\* request was a reset of the same key), cleared (the cursor that reset
\* removed), new_instance (the request was the first its instance served) and
\* saved (no write of the state file failed during the request).
BaseResult(op, symbol, interval, outcome) ==
    [op |-> op, symbol |-> symbol, interval |-> interval,
     outcome |-> outcome, http |-> HttpStatus(outcome),
     price |-> 0, timestamp |-> 0, candle_timestamp |-> 0, candle_close_timestamp |-> 0,
     is_open |-> FALSE, is_high |-> FALSE, is_low |-> FALSE, is_close |-> FALSE,
     candle_index |-> 0, point_index |-> 0, total_candles |-> 0, total_points |-> 0,
     high_touched |-> FALSE, low_touched |-> FALSE,
     generated |-> FALSE, after_reset |-> FALSE, cleared |-> NoCursor,
     new_instance |-> FALSE, saved |-> TRUE]

\* "Return the price information".
PriceResult(symbol, interval, df, out) ==
    LET key == Key(symbol, interval)
        pts == out.state.simulation_progress[key].price_points
        price_point == pts[out.point_index + 1]
        c == df[out.candle_index + 1]
    IN  [BaseResult("get_current_price", symbol, interval, "ok") EXCEPT
            !.price = price_point.price,
            !.timestamp = price_point.timestamp,
            !.candle_timestamp = c.time,
            !.candle_close_timestamp = c.close_time,
            !.is_open = price_point.is_open,
            !.is_high = price_point.is_high,
            !.is_low = price_point.is_low,
            !.is_close = price_point.is_close,
            !.candle_index = out.candle_index,
            !.point_index = out.point_index,
            !.total_candles = Len(df),
            !.total_points = Len(pts),
            !.high_touched = out.state.high_touched[key],
            !.low_touched = out.state.low_touched[key],
            !.generated = out.generated]

\* Points recorded as returned, over all keys.
RECURSIVE SumLen(_, _)
SumLen(d, ks) ==
    IF ks = {} THEN 0
    ELSE LET k == CHOOSE x \in ks : TRUE IN Len(d[k]) + SumLen(d, ks \ {k})

TotalReturned(s) == SumLen(s.price_points_returned, DOMAIN s.price_points_returned)

\* The previous request was a reset of this key.
AfterReset(symbol, interval) ==
    result.op = "reset_simulation" /\ result.symbol = symbol /\ result.interval = interval

\* The bookkeeping fields of the result of a get_current_price request.
Annotated(r, symbol, interval) ==
    [r EXCEPT !.after_reset = AfterReset(symbol, interval),
              !.cleared = IF AfterReset(symbol, interval) THEN result.cleared ELSE NoCursor,
              !.new_instance = fresh]

\* A slip: the exception of a failed write reaches the caller.
AfterSavePropagates(r, w) ==
    IF w = "written" THEN r
    ELSE [r EXCEPT !.outcome = "raised", !.http = 500, !.saved = FALSE]

\* What the caller gets when _save_state met the write outcome w: the
\* exception is caught and logged there, the result is the one computed.
AfterSave(r, w) == [r EXCEPT !.saved = (w = "written")]

\* self.state["price_points_returned"] raises KeyError: the loaded document
\* was a dictionary without the mappings (the documents such a state comes
\* from here hold none of them).
LacksMappings(s) == "price_points_returned" \notin DOMAIN s

\* Points recorded as returned, none where the mappings are missing.
Returned(s) == IF LacksMappings(s) THEN 0 ELSE TotalReturned(s)

\* The generator's variables stand still in Spec.
GenIdle ==
    /\ candle = <<>>
    /\ num_points = 0
    /\ gpc = "idle"
    /\ high_idx = 0
    /\ low_idx = 0
    /\ price_points = <<>>
    /\ raised = ""

\* PriceSimulator(data_dir) where no state file exists yet.
Init ==
    /\ LET loaded == LoadState(NoFile)
       IN  state = loaded.state /\ file = loaded.file
    /\ result = BaseResult("__init__", "", "", "ok")
    /\ fresh = TRUE
    /\ calls = [k \in Keys |-> [n |-> 0, candle_index |-> 0, point_index |-> 0]]
    /\ GenIdle
    /\ LoadIdle
    /\ DecIdle
    /\ RaceIdle

\* simulator.get_current_price(symbol, interval), with w the outcome of its
\* write of the state file and max the number of points a run records and of
\* calls it makes on a key between two resets.
GetCurrentPriceW(symbol, interval, w, max) ==
    /\ Returned(state) < max
    /\ calls[Key(symbol, interval)].n < max
    /\ LET df == LoadCandleData(symbol, interval)
           key == Key(symbol, interval)
       IN  IF ~df.found
           THEN /\ result' = Annotated(BaseResult("get_current_price", symbol, interval,
                                                  "error"), symbol, interval)
                /\ UNCHANGED <<state, file, calls>>
           ELSE IF LacksMappings(state)
           THEN /\ result' = Annotated(BaseResult("get_current_price", symbol, interval,
                                                  "raised"), symbol, interval)
                /\ calls' = [calls EXCEPT ![key].n = @ + 1]
                /\ UNCHANGED <<state, file>>
           ELSE \E d1 \in DrawsIf(NeedsPoints(state, key, df.rows)) :
                \E d2 \in DrawsIf(Exhausted(state, key, df.rows)) :
                    LET out == Serve(state, key, df.rows, d1, d2)
                    IN  /\ state' = out.state
                        /\ IF out.outcome = "ok"
                           THEN /\ file' = WriteState(file, out.state, w)
                                /\ result' = AfterSave(
                                                Annotated(PriceResult(symbol, interval,
                                                                      df.rows, out),
                                                          symbol, interval), w)
                                /\ calls' = [calls EXCEPT ![key] =
                                                [n |-> @.n + 1,
                                                 candle_index |-> out.candle_index,
                                                 point_index |-> out.point_index]]
                           ELSE /\ file' = file
                                /\ result' = Annotated(BaseResult("get_current_price",
                                                                 symbol, interval, "raised"),
                                                      symbol, interval)
                                /\ calls' = [calls EXCEPT ![key].n = @ + 1]
    /\ fresh' = FALSE
    /\ UNCHANGED gen_vars
    /\ UNCHANGED load_vars
    /\ UNCHANGED dec_vars
    /\ UNCHANGED race_vars

\* simulator.get_current_price(symbol, interval) over a store that works.
GetCurrentPrice(symbol, interval) ==
    GetCurrentPriceW(symbol, interval, "written", MaxReturned)

\* A slip in reset_simulation: the progress entry of the key is kept.
ResetKeyStateKeepsProgress(s, symbol, interval) ==
    LET key == Key(symbol, interval)
    IN  [s EXCEPT
            !.current_candle_index = 0,
            !.current_timestamp = None,
            !.current_symbol = symbol,
            !.current_interval = interval,
            !.price_points_returned = Del(@, key),
            !.high_touched = Del(@, key),
            !.low_touched = Del(@, key)]

\* A slip in reset_simulation: the entries of every key are removed.
ResetKeyStateClearsAll(s, symbol, interval) ==
    [s EXCEPT
        !.current_candle_index = 0,
        !.current_timestamp = None,
        !.current_symbol = symbol,
        !.current_interval = interval,
        !.price_points_returned = EmptyDict,
        !.high_touched = EmptyDict,
        !.low_touched = EmptyDict,
        !.simulation_progress = EmptyDict]

\* "Reset state for this symbol and interval".
ResetKeyState(s, symbol, interval) ==
    LET key == Key(symbol, interval)
    IN  [s EXCEPT
            !.current_candle_index = 0,
            !.current_timestamp = None,
            !.current_symbol = symbol,
            !.current_interval = interval,
            !.price_points_returned = Del(@, key),
            !.high_touched = Del(@, key),
            !.low_touched = Del(@, key),
            !.simulation_progress = Del(@, key)]

\* The four assignments reset_simulation makes before it reads a mapping.
ResetMarkers(s, symbol, interval) ==
    Put(Put(Put(Put(s, "current_candle_index", 0), "current_timestamp", None),
            "current_symbol", symbol), "current_interval", interval)

\* simulator.reset_simulation(symbol, interval), with w the outcome of its
\* write of the state file.
ResetSimulationW(symbol, interval, w) ==
    /\ IF LacksMappings(state)
       THEN /\ state' = ResetMarkers(state, symbol, interval)
            /\ file' = file
            /\ result' = BaseResult("reset_simulation", symbol, interval, "raised")
            /\ UNCHANGED calls
       ELSE /\ state' = ResetKeyState(state, symbol, interval)
            /\ file' = WriteState(file, state', w)
            /\ result' = AfterSave([BaseResult("reset_simulation", symbol, interval, "ok")
                                        EXCEPT !.cleared = CursorOf(state,
                                                                    Key(symbol, interval))],
                                   w)
            /\ calls' = [calls EXCEPT ![Key(symbol, interval)] =
                            [n |-> 0, candle_index |-> 0, point_index |-> 0]]
    /\ fresh' = FALSE
    /\ UNCHANGED gen_vars
    /\ UNCHANGED load_vars
    /\ UNCHANGED dec_vars
    /\ UNCHANGED race_vars

\* simulator.reset_simulation(symbol, interval) over a store that works.
ResetSimulation(symbol, interval) == ResetSimulationW(symbol, interval, "written")

\* The instance is discarded and a new PriceSimulator(data_dir) is built over
\* the same files (get_simulator builds one for every request); w is the
\* outcome of the write of the default state, if _load_state makes one.
RestartW(w) ==
    /\ LET loaded == LoadStateW(file, w)
       IN  state' = loaded.state /\ file' = loaded.file
    /\ fresh' = TRUE
    /\ UNCHANGED <<result, calls>>
    /\ UNCHANGED gen_vars
    /\ UNCHANGED load_vars
    /\ UNCHANGED dec_vars
    /\ UNCHANGED race_vars

\* A new instance over a store that works.
Restart == RestartW("written")

Next ==
    \/ \E req \in Requests : GetCurrentPrice(req[1], req[2])
    \/ \E req \in Requests : ResetSimulation(req[1], req[2])
    \/ Restart

Spec == Init /\ [][Next]_vars

(***************************************************************************)
(* The simulator over a store that can fail: writes of the state file fail *)
(* and the file is damaged between requests.                               *)
(***************************************************************************)
\* Points a run of SpecStore records.
MaxStoreReturned == 5

\* The pair the requests of SpecStore are made for.
StoreRequests == { <<"AVAXUSDT", "1h">> }

\* What a damaged state file holds: text that is not JSON, or the JSON
\* document {} .
DamagedContents == {BadJson, EmptyDict}

\* The state file is overwritten from outside the simulator.
Damage(c) ==
    /\ file.exists
    /\ file.content # c
    /\ file' = [exists |-> TRUE, content |-> c]
    /\ UNCHANGED <<state, result, fresh, calls>>
    /\ UNCHANGED gen_vars
    /\ UNCHANGED load_vars
    /\ UNCHANGED dec_vars
    /\ UNCHANGED race_vars

NextStore ==
    \/ \E req \in StoreRequests, w \in WriteOutcomes :
            GetCurrentPriceW(req[1], req[2], w, MaxStoreReturned)
    \/ \E req \in StoreRequests, w \in WriteOutcomes : ResetSimulationW(req[1], req[2], w)
    \/ \E w \in WriteOutcomes : RestartW(w)
    \/ \E c \in DamagedContents : Damage(c)

SpecStore == Init /\ [][NextStore]_vars

(***************************************************************************)
(* SpecLoad: one call of _load_candle_data over any set of candle files.   *)
(***************************************************************************)
\* The windows in the order _load_candle_data looks for them.
Priority == <<"recent">> \o FallbackWindows

LoadSymbols == {"AVAXUSDT", "BTCUSDT"}

\* The candle files that may exist.
LoadPaths == {CandlePath(symbol, Priority[i], "1h") : symbol \in LoadSymbols, i \in 1 .. 4}

\* The rows of a candle file: one candle, whose prices tell the files apart.
FileRows(path) ==
    LET i == CHOOSE j \in 1 .. 4 : Priority[j] = path[2]
        v == 10000 * i + (IF path[1] = "BTCUSDT" THEN 5000 ELSE 0)
    IN  << Candle(0, 3600000, v, v, v, v) >>

InitLoad ==
    /\ data_dir \in {[path \in present |-> FileRows(path)] : present \in SUBSET LoadPaths}
    /\ loaded_df = NotLoaded
    /\ GenIdle
    /\ SimIdle
    /\ DecIdle
    /\ RaceIdle

\* df = self._load_candle_data(symbol, interval)
LoadCall(symbol, interval) ==
    /\ loaded_df' = [symbol |-> symbol, interval |-> interval,
                  df |-> LoadCandleDataIn(data_dir, symbol, interval)]
    /\ UNCHANGED data_dir
    /\ UNCHANGED gen_vars
    /\ UNCHANGED sim_vars
    /\ UNCHANGED dec_vars
    /\ UNCHANGED race_vars

NextLoad == \E symbol \in LoadSymbols : LoadCall(symbol, "1h")

SpecLoad == InitLoad /\ [][NextLoad]_vars


(***************************************************************************)
(* Claims about _generate_price_points, checked under SpecGen.             *)
(***************************************************************************)
\* The indices k of the returned list whose point carries flag f.
Flagged(f) == {k \in 1 .. Len(price_points) : price_points[k][f]}

\* What C1 says of the flags and indices of the returned list.
PathShape ==
    /\ Len(price_points) = num_points
    /\ \A k \in 1 .. num_points : price_points[k].point_index = k - 1
    /\ Flagged("is_open") = {1}
    /\ Flagged("is_close") = {num_points}
    /\ Cardinality(Flagged("is_high")) = 1
    /\ Cardinality(Flagged("is_low")) = 1
    /\ Flagged("is_high") \subseteq 2 .. (num_points - 1)
    /\ Flagged("is_low") \subseteq 2 .. (num_points - 1)
    /\ Flagged("is_high") \cap Flagged("is_low") = {}

C2_AnchorsExact ==
    (gpc = "done" /\ WellFormed(candle) /\ num_points >= 4) =>
        /\ price_points[high_idx + 1].is_high
        /\ price_points[high_idx + 1].price = Round3(candle.high)
        /\ price_points[low_idx + 1].is_low
        /\ price_points[low_idx + 1].price = Round3(candle.low)

\* C3: a call with num_points < 4 ends in a failure and returns no list.
C3_FailsBelowFour ==
    (num_points < 4) ~> (gpc = "raised" /\ price_points = <<>>)

(***************************************************************************)
(* Claims about get_current_price and reset_simulation, checked under Spec.*)
(***************************************************************************)
\* One of the four candle files of the pair exists.
HasCandleFile(symbol, interval) ==
    \E w \in {"recent", "1year_ago", "2years_ago", "3years_ago"} :
        CandlePath(symbol, w, interval) \in DOMAIN CandleFiles

\* The candle sequence get_current_price reads for a key.
RowsOf(k) == LoadCandleData(k[1], k[2]).rows

\* The last request was get_current_price on key k.
GetOn(k) == result.op = "get_current_price" /\ Key(result.symbol, result.interval) = k

\* The result is point 0 of a path this call generated for candle ci of key k.
FirstPointOfNewPath(r, k, ci) ==
    /\ r.outcome = "ok"
    /\ r.generated
    /\ r.candle_index = ci
    /\ r.point_index = 0
    /\ r.is_open
    /\ r.total_points = NumPoints
    /\ r.price = Round3(RowsOf(k)[ci + 1].open)
    /\ r.candle_timestamp = RowsOf(k)[ci + 1].time

LexLeq(a, b) == a[1] < b[1] \/ (a[1] = b[1] /\ a[2] <= b[2])

\* C4: for a key with a fixed candle sequence and no reset in between, the
\* (candle_index, point_index) pairs reported by successive successful
\* get_current_price calls never decrease lexicographically, except for a
\* wrap to (0, 0), which happens only right after the call that returned the
\* last point of the last candle.
C4_OrderedWithWrap ==
    [][\A k \in Keys :
        (/\ calls'[k].n = calls[k].n + 1
         /\ calls[k].n > 0
         /\ result'.outcome = "ok"
         /\ Key(result'.symbol, result'.interval) = k) =>
            LET a == <<calls[k].candle_index, calls[k].point_index>>
                b == <<result'.candle_index, result'.point_index>>
            IN  \/ LexLeq(a, b)
                \/ /\ b = <<0, 0>>
                   /\ a = <<result'.total_candles - 1, result'.total_points - 1>>]_vars

\* The call after the last point of the second of two candles has wrapped.
C4_Witness ==
    \E k \in Keys :
        /\ GetOn(k)
        /\ result.outcome = "ok"
        /\ result.total_candles = 2
        /\ calls[k].n = 2 * NumPoints + 1
        /\ <<result.candle_index, result.point_index>> = <<0, 0>>

\* C5: every successful call returns exactly one point, the one it records;
\* and on a key of at least two candles the call after the NumPoints calls of
\* candle 0 returns point 0 of a path it generates for candle 1 and leaves the
\* stored cursor at candle_index = 1, point_index = 1.
C5_CrossesCandleBoundary ==
    \A k \in Keys :
        (GetOn(k) /\ result.outcome = "ok") =>
            /\ Len(state.price_points_returned[k]) = calls[k].n
            /\ state.price_points_returned[k][calls[k].n].price = result.price
            /\ state.price_points_returned[k][calls[k].n].point_index = result.point_index
            /\ (Len(RowsOf(k)) >= 2 /\ calls[k].n = NumPoints + 1) =>
                  /\ FirstPointOfNewPath(result, k, 1)
                  /\ state.simulation_progress[k].candle_index = 1
                  /\ state.simulation_progress[k].point_index = 1

\* The call that crossed from candle 0 to candle 1.
C5_Witness ==
    \E k \in Keys :
        /\ GetOn(k)
        /\ Len(RowsOf(k)) >= 2
        /\ calls[k].n = NumPoints + 1
        /\ result.candle_index = 1
        /\ state.simulation_progress[k].point_index = 1

\* C6: on a key of total_candles >= 1 candles, the call after the
\* total_candles * NumPoints calls that returned every point sets candle_index
\* back to 0 and returns point 0 of a path it generates for candle 0.
C6_WrapsToCandleZero ==
    \A k \in Keys :
        (GetOn(k) /\ HasCandleFile(k[1], k[2])
            /\ calls[k].n = Len(RowsOf(k)) * NumPoints + 1) =>
                /\ FirstPointOfNewPath(result, k, 0)
                /\ state.simulation_progress[k].candle_index = 0
                /\ state.simulation_progress[k].point_index = 1

\* The wrap of a key that has a single candle.
C6_Witness ==
    \E k \in Keys :
        /\ GetOn(k)
        /\ result.total_candles = 1
        /\ calls[k].n = NumPoints + 1
        /\ result.generated
        /\ state.simulation_progress[k].candle_index = 0

\* C7: a get_current_price that follows a reset_simulation of the same key
\* returns point 0 of a path it generates for candle 0, with high_touched and
\* low_touched false, whatever cursor the reset found.
C7_ResetThenFirstPoint ==
    (/\ result.op = "get_current_price"
     /\ result.after_reset
     /\ HasCandleFile(result.symbol, result.interval)) =>
        /\ FirstPointOfNewPath(result, Key(result.symbol, result.interval), 0)
        /\ ~result.high_touched
        /\ ~result.low_touched

\* The reset found the key in the middle of its second candle.
C7_Witness ==
    /\ result.op = "get_current_price"
    /\ result.after_reset
    /\ result.outcome = "ok"
    /\ result.cleared.had
    /\ result.cleared.candle_index = 1
    /\ result.cleared.point_index = 2

\* C8: get_current_price on a key whose candle data exists returns a price
\* point in every reachable state: it neither raises nor returns the error
\* dictionary.
C8_NeverFailsWithData ==
    (result.op = "get_current_price" /\ HasCandleFile(result.symbol, result.interval)) =>
        (result.outcome = "ok" /\ result.http = 200)

\* A call that had to generate a path, on a key that is past its first
\* candle, after another key was reset.
C8_Witness ==
    /\ result.op = "get_current_price"
    /\ result.outcome = "ok"
    /\ result.generated
    /\ calls[Key(result.symbol, result.interval)].n > NumPoints
    /\ state.current_symbol \notin {None, result.symbol}

\* C9: get_current_price for a pair none of whose candle files exists returns
\* the error dictionary (a 404 at the route) and leaves the state dictionary
\* and the state file as they were: no entry of the key is created.
C9_NotFoundChangesNothing ==
    [][(/\ result'.op = "get_current_price"
        /\ ~HasCandleFile(result'.symbol, result'.interval)) =>
            LET k == Key(result'.symbol, result'.interval)
                persisted == JsonLoad(file'.content)
            IN  /\ result'.outcome = "error"
                /\ result'.http = 404
                /\ state' = state
                /\ file' = file
                /\ k \notin DOMAIN state'.simulation_progress
                /\ k \notin DOMAIN state'.price_points_returned
                /\ k \notin DOMAIN state'.high_touched
                /\ k \notin DOMAIN state'.low_touched
                /\ k \notin DOMAIN persisted.simulation_progress
                /\ k \notin DOMAIN persisted.price_points_returned]_vars

\* A not-found answer while other keys have cursors.
C9_Witness ==
    /\ result.op = "get_current_price"
    /\ result.outcome = "error"
    /\ result.http = 404
    /\ ~fresh
    /\ DOMAIN state.simulation_progress # {}

\* C10: building a new instance over the same state file changes nothing:
\* the new instance holds the state the old one held, and a call on a key
\* whose persisted buffer is not exhausted returns the point at the persisted
\* (candle_index, point_index) of the persisted buffer.
C10_RestartChangesNothing ==
    [][/\ (fresh' /\ ~fresh) => (state' = state /\ file' = file)
       /\ \A k \in Keys :
            LET persisted == JsonLoad(file.content).simulation_progress
            IN  (/\ calls'[k].n = calls[k].n + 1
                 /\ k \in DOMAIN persisted
                 /\ persisted[k].candle_index < Len(RowsOf(k))
                 /\ persisted[k].point_index < Len(persisted[k].price_points)) =>
                    /\ result'.outcome = "ok"
                    /\ result'.candle_index = persisted[k].candle_index
                    /\ result'.point_index = persisted[k].point_index
                    /\ result'.price =
                         persisted[k].price_points[persisted[k].point_index + 1].price
                    /\ result'.timestamp =
                         persisted[k].price_points[persisted[k].point_index + 1].timestamp]_vars

\* A new instance served a call in the middle of a candle.
C10_Witness ==
    /\ result.op = "get_current_price"
    /\ result.outcome = "ok"
    /\ result.new_instance
    /\ result.point_index = 2
    /\ calls[Key(result.symbol, result.interval)].n = 3

(***************************************************************************)
(* Claims about the state store, checked under SpecStore.                  *)
(***************************************************************************)
\* C11: a state file that exists but is unreadable or corrupt - not JSON, or
\* JSON without the per-key mappings - makes the new instance start from the
\* default state, and no get_current_price or reset_simulation call raises
\* because of it.
C11_BadRecordNeverFatal ==
    [][/\ ((\E w \in WriteOutcomes : RestartW(w))
            /\ file.exists /\ file.content \in DamagedContents) =>
                state' = DefaultState
       /\ result'.outcome # "raised"]_vars

\* The calls whose write of the state file fails.
FailedWrites == WriteOutcomes \ {"written"}

\* C12: when the write of the state file fails during get_current_price or
\* reset_simulation, nothing is raised: the call returns the result it
\* returns with a working store and the dictionary in memory is advanced (or
\* cleared) as usual.
C12_WriteFailureNotPropagated ==
    [][\A req \in StoreRequests, w \in FailedWrites :
        LET symbol == req[1]
            interval == req[2]
            key == Key(symbol, interval)
            df == LoadCandleData(symbol, interval)
        IN  /\ (/\ GetCurrentPriceW(symbol, interval, w, MaxStoreReturned)
                /\ df.found
                /\ ~LacksMappings(state)) =>
                    \E d1 \in Draws, d2 \in Draws :
                        LET out == Serve(state, key, df.rows, d1, d2)
                        IN  /\ out.outcome = "ok"
                            /\ state' = out.state
                            /\ [result' EXCEPT !.saved = TRUE] =
                                 Annotated(PriceResult(symbol, interval, df.rows, out),
                                           symbol, interval)
                            /\ ~result'.saved
            /\ (/\ ResetSimulationW(symbol, interval, w)
                /\ ~LacksMappings(state)) =>
                    /\ result'.outcome = "ok"
                    /\ ~result'.saved
                    /\ state' = ResetKeyState(state, symbol, interval)
                    /\ key \notin DOMAIN state'.simulation_progress]_vars

\* A call returned its point although the write failed: the file is behind
\* the dictionary in memory.
C12_Witness ==
    /\ result.op = "get_current_price"
    /\ result.outcome = "ok"
    /\ ~result.saved
    /\ result.point_index = 1
    /\ file.content # BadJson
    /\ file.content # JsonDump(state)

(***************************************************************************)
(* Claims about the cursor, the frame and the touched flags, under Spec.   *)
(***************************************************************************)
\* The progress entries of a state dictionary, or of the JSON document of
\* one, are within their bounds and hold a generated path.
ProgressWithinBounds(s) ==
    \A k \in DOMAIN s.simulation_progress :
        LET p == s.simulation_progress[k]
        IN  /\ 0 <= p.candle_index
            /\ p.candle_index < Len(RowsOf(k))
            /\ 0 <= p.point_index
            /\ p.point_index <= Len(p.price_points)
            /\ p.price_points # <<>>

\* C13: after every call each key with a progress entry has
\* 0 <= candle_index < number of candles and 0 <= point_index <=
\* len(price_points), in memory and in the state file, and its buffer is not
\* empty.
C13_CursorWithinBounds ==
    /\ ProgressWithinBounds(state)
    /\ ProgressWithinBounds(file.content)

\* A key stands after the last point of its last candle: both upper bounds
\* are met.
C13_Witness ==
    \E k \in DOMAIN state.simulation_progress :
        LET p == state.simulation_progress[k]
        IN  /\ Len(RowsOf(k)) = 2
            /\ p.candle_index = 1
            /\ p.point_index = Len(p.price_points)
            /\ JsonLoad(file.content).simulation_progress[k] = p

\* What a state dictionary, or the JSON document of one, holds for key k.
EntriesOf(s, k) ==
    [progress |-> IF k \in DOMAIN s.simulation_progress
                  THEN <<s.simulation_progress[k]>> ELSE <<>>,
     returned |-> IF k \in DOMAIN s.price_points_returned
                  THEN <<s.price_points_returned[k]>> ELSE <<>>,
     high |-> IF k \in DOMAIN s.high_touched THEN <<s.high_touched[k]>> ELSE <<>>,
     low |-> IF k \in DOMAIN s.low_touched THEN <<s.low_touched[k]>> ELSE <<>>]

\* C14: get_current_price and reset_simulation on key K leave the cursor,
\* buffer, touched flags and history of every other key as they were, in
\* memory and in the state file; a reset removes the entries of K only.
C14_OtherKeysUntouched ==
    [][\A k \in Keys :
        k # Key(result'.symbol, result'.interval) =>
            /\ EntriesOf(state', k) = EntriesOf(state, k)
            /\ EntriesOf(file'.content, k) = EntriesOf(file.content, k)]_vars

\* A reset removed the cursor of its key while another key was in the middle
\* of a candle.
C14_Witness ==
    /\ result.op = "reset_simulation"
    /\ result.cleared.had
    /\ result.cleared.point_index >= 2
    /\ \E k \in DOMAIN state.simulation_progress :
            /\ k # Key(result.symbol, result.interval)
            /\ state.simulation_progress[k].point_index >= 2
            /\ state.price_points_returned[k] # <<>>

\* A point with flag f is among the points returned for k since its last reset.
ReturnedFlagged(k, f) ==
    \E i \in 1 .. Len(state.price_points_returned[k]) : state.price_points_returned[k][i][f]

\* C15: the high_touched (low_touched) value a response reports is true
\* exactly when a point flagged is_high (is_low) has been returned for the key
\* since its last reset, the point of this response included; the first
\* response after a reset reports both false.
C15_TouchedSinceReset ==
    \A k \in Keys :
        (GetOn(k) /\ result.outcome = "ok") =>
            /\ result.high_touched = ReturnedFlagged(k, "is_high")
            /\ result.low_touched = ReturnedFlagged(k, "is_low")
            /\ result.is_high => result.high_touched
            /\ result.is_low => result.low_touched
            /\ result.after_reset => (~result.high_touched /\ ~result.low_touched)
            /\ state.high_touched[k] = result.high_touched
            /\ state.low_touched[k] = result.low_touched

\* The response that returns the high anchor, before the low anchor: one flag
\* is set and the other is not.
C15_Witness ==
    /\ result.op = "get_current_price"
    /\ result.outcome = "ok"
    /\ result.is_high
    /\ result.high_touched
    /\ ~result.low_touched
    /\ result.cleared = NoCursor

(***************************************************************************)
(* More claims about _generate_price_points, checked under SpecGen.        *)
(***************************************************************************)
\* open = high = low = close
Degenerate(c) == c.open = c.high /\ c.high = c.low /\ c.low = c.close

AnchorPrice(c, n, hi, lo, i) ==
    IF i = lo THEN c.low
    ELSE IF i = hi THEN c.high
    ELSE IF i = n - 1 THEN c.close
    ELSE c.open

\* The ends of the segment that holds i when the index range is cut at the
\* two extremes taken in the order of their positions.
SegmentOf(n, hi, lo, i) ==
    IF i < Min(hi, lo) THEN <<0, Min(hi, lo)>>
    ELSE IF i < Max(hi, lo) THEN <<Min(hi, lo), Max(hi, lo)>>
    ELSE <<Max(hi, lo), n - 1>>

\* What round(., 3) and the integer division of the model can move a price by.
RoundingSlack == 10

\* C18: for every num_points >= 4 and every draw, each non-anchor index i
\* carries a + p * (b - a) + jitter with |jitter| <= 0.1 * |b - a|, where a
\* and b are the anchor prices at the ends of the segment holding i among
\* (0, min(high_idx, low_idx)), (min, max), (max, num_points - 1) and p is the
\* progress of i inside that segment.
C18_SegmentsByPosition ==
    (gpc = "done" /\ num_points >= 4) =>
        \A i \in IndexRange(num_points) \ {high_idx, low_idx} :
            LET seg == SegmentOf(num_points, high_idx, low_idx, i)
                a == AnchorPrice(candle, num_points, high_idx, low_idx, seg[1])
                b == AnchorPrice(candle, num_points, high_idx, low_idx, seg[2])
                base == a + ((i - seg[1]) * (b - a)) \div (seg[2] - seg[1])
            IN  Abs(price_points[i + 1].price - base) <= Abs(b - a) \div 10 + RoundingSlack

\* C20: every call of _generate_price_points ends, with a path or with an
\* exception, for every candle and every num_points.
C20_Terminates == <>(gpc \in {"done", "raised"})

(***************************************************************************)
(* The traversal of one candle, checked under Spec.                        *)
(***************************************************************************)
\* The key has no buffer, or its buffer is exhausted.
NoPointLeft(s, k) ==
    \/ k \notin DOMAIN s.simulation_progress
    \/ s.simulation_progress[k].price_points = <<>>
    \/ s.simulation_progress[k].point_index >= Len(s.simulation_progress[k].price_points)

\* The points returned for k since its buffer was generated are the first
\* point_index points of that buffer, in order.
ReturnedIsPrefixOfBuffer(s, k) ==
    LET p == s.simulation_progress[k]
        h == s.price_points_returned[k]
    IN  /\ p.point_index <= Len(p.price_points)
        /\ p.point_index <= Len(h)
        /\ \A j \in 1 .. p.point_index :
                h[Len(h) - p.point_index + j] = p.price_points[j]

\* C19: a path is generated only when the key has no buffer or its buffer is
\* exhausted; every other call returns the next point of the buffer it found
\* and leaves that buffer as it was, so the calls between two generations
\* return buffer[0], buffer[1], ... each once and in order.
C19_OnePathPerCandle ==
    [][\A k \in Keys :
        (/\ calls'[k].n = calls[k].n + 1
         /\ result'.outcome = "ok") =>
            /\ result'.generated = NoPointLeft(state, k)
            /\ result'.generated => result'.point_index = 0
            /\ ~result'.generated =>
                LET p == state.simulation_progress[k]
                IN  /\ state'.simulation_progress[k].price_points = p.price_points
                    /\ result'.point_index = p.point_index
                    /\ result'.candle_index = p.candle_index
                    /\ result'.price = p.price_points[p.point_index + 1].price
                    /\ result'.timestamp = p.price_points[p.point_index + 1].timestamp
            /\ state'.simulation_progress[k].point_index = result'.point_index + 1
            /\ ReturnedIsPrefixOfBuffer(state', k)]_vars

\* Two candles were traversed point by point: the key stands after the last
\* point of the second path.
C19_Witness ==
    \E k \in DOMAIN state.simulation_progress :
        /\ state.simulation_progress[k].candle_index = 1
        /\ state.simulation_progress[k].point_index = NumPoints
        /\ Len(state.price_points_returned[k]) = 2 * NumPoints
        /\ GetOn(k)
        /\ ~result.generated

(***************************************************************************)
(* The choice of the candle file, checked under SpecLoad.                  *)
(***************************************************************************)
\* The path of the i-th window in priority order, for the pair of the call.
PathOfRank(i) == CandlePath(loaded_df.symbol, Priority[i], loaded_df.interval)

\* C17: _load_candle_data returns the rows of the recent file if it exists,
\* otherwise of the first existing of 1year_ago, 2years_ago, 3years_ago; no
\* file is used while one of higher priority exists; with none of the four
\* the result is None.
C17_FirstExistingWindow ==
    loaded_df # NotLoaded =>
        /\ \A i \in 1 .. 4 :
            (/\ PathOfRank(i) \in DOMAIN data_dir
             /\ \A j \in 1 .. (i - 1) : PathOfRank(j) \notin DOMAIN data_dir) =>
                /\ loaded_df.df.found
                /\ loaded_df.df.rows = data_dir[PathOfRank(i)]
                /\ \A j \in (i + 1) .. 4 :
                        PathOfRank(j) \in DOMAIN data_dir =>
                            loaded_df.df.rows # data_dir[PathOfRank(j)]
        /\ (\A i \in 1 .. 4 : PathOfRank(i) \notin DOMAIN data_dir) => ~loaded_df.df.found

\* The call fell back to 2years_ago although 3years_ago exists as well.
C17_Witness ==
    /\ loaded_df # NotLoaded
    /\ PathOfRank(1) \notin DOMAIN data_dir
    /\ PathOfRank(2) \notin DOMAIN data_dir
    /\ PathOfRank(3) \in DOMAIN data_dir
    /\ PathOfRank(4) \in DOMAIN data_dir
    /\ loaded_df.df.found
    /\ loaded_df.df.rows = data_dir[PathOfRank(3)]

(***************************************************************************)
(* SpecGenLong: _generate_price_points on a path long enough for a        *)
(* segment of more than ten points, where one step of the interpolation   *)
(* is smaller than the largest jitter.                                    *)
(***************************************************************************)
\* The num_points of SpecGenLong (the code's default is 60).
LongNumPoints == 13

\* The draws of random.uniform(-0.1, 0.1) SpecGenLong takes: the same draw at
\* every index.
UniformJitters(n) == { [i \in IndexRange(n) |-> j] : j \in Jitters }

\* The candles of SpecGenLong: those whose prices are all above zero, so that
\* no anchor equals the value the filling loops take for "not set".
LongCandles == {c \in GenCandles : WellFormed(c) /\ c.low > 0}

InitGenLong ==
    /\ candle \in LongCandles
    /\ num_points = LongNumPoints
    /\ gpc = "start"
    /\ high_idx = 0
    /\ low_idx = 0
    /\ price_points = <<>>
    /\ raised = ""
    /\ SimIdle
    /\ LoadIdle
    /\ DecIdle
    /\ RaceIdle

\* The loop is left: the anchors, the three filling loops, the list of points.
GenFillUniform ==
    /\ gpc = "redraw"
    /\ high_idx # low_idx
    /\ \E jit \in UniformJitters(num_points) :
           price_points' = GeneratePricePoints(candle, num_points, high_idx, low_idx, jit)
    /\ gpc' = "done"
    /\ UNCHANGED <<candle, num_points, high_idx, low_idx, raised>>
    /\ UNCHANGED sim_vars
    /\ UNCHANGED load_vars
    /\ UNCHANGED dec_vars
    /\ UNCHANGED race_vars

NextGenLong ==
    \/ GenTimestamps
    \/ GenDraw
    \/ GenRedraw
    \/ GenFillUniform

SpecGenLong == InitGenLong /\ [][NextGenLong]_vars /\ WF_vars(NextGenLong)

(***************************************************************************)
(* The range of the generated prices.                                      *)
(***************************************************************************)
\* The prices of the returned path.
PathPrices == { price_points[k].price : k \in 1 .. Len(price_points) }

\* C24: for every candle with low <= min(open, close) <= max(open, close) <=
\* high and every num_points >= 4, every price of the generated path lies in
\* [low, high] (up to the rounding of the prices), so the point flagged is_high
\* carries the maximum of the path and the point flagged is_low the minimum.
C24_PricesWithinCandle ==
    (gpc = "done" /\ WellFormed(candle) /\ num_points >= 4) =>
        /\ \A x \in PathPrices :
               /\ x >= candle.low - RoundingSlack
               /\ x <= candle.high + RoundingSlack
        /\ \A k \in 1 .. Len(price_points) :
               /\ price_points[k].is_high =>
                      \A x \in PathPrices : x <= price_points[k].price
               /\ price_points[k].is_low =>
                      \A x \in PathPrices : x >= price_points[k].price

(***************************************************************************)
(* The touched flags and the candle being traversed.                       *)
(***************************************************************************)
\* The points returned for key k during the traversal the last response
\* belongs to: the last point_index + 1 entries of the history.
ReturnedOfCandle(k) ==
    LET h == state.price_points_returned[k]
    IN  { h[i] : i \in { j \in 1 .. Len(h) : j >= Len(h) - result.point_index } }

\* C23: the high_touched and low_touched values of a response describe the
\* candle being traversed: the response for the first point of a new candle
\* (after a candle advance or a wrap) reports both false, and each is true only
\* once the high (low) anchor of that candle has been returned.
C23_TouchedOfCurrentCandle ==
    \A k \in Keys :
        (GetOn(k) /\ result.outcome = "ok") =>
            /\ result.point_index = 0 => (~result.high_touched /\ ~result.low_touched)
            /\ result.high_touched => \E p \in ReturnedOfCandle(k) : p.is_high
            /\ result.low_touched => \E p \in ReturnedOfCandle(k) : p.is_low

(***************************************************************************)
(* The list of returned points of a key.                                   *)
(***************************************************************************)
\* price_points_returned[k] of the dictionary s, empty where the key has no
\* entry.
ReturnedOf(s, k) ==
    IF k \in DOMAIN s.price_points_returned THEN s.price_points_returned[k] ELSE <<>>

\* The step is a get_current_price on key k that returned a point.
ServedStep(k) ==
    /\ calls'[k].n = calls[k].n + 1
    /\ result'.op = "get_current_price"
    /\ result'.outcome = "ok"
    /\ Key(result'.symbol, result'.interval) = k

\* C25: for each key the length of price_points_returned[key] is the number
\* of successful get_current_price calls on the key since its last reset (or
\* since the state was created): a successful call appends exactly the point
\* it returns, a not-found call appends nothing, and only reset_simulation of
\* the key removes entries - a candle advance or a wrap does not.
C25_ReturnedCountsCalls ==
    [][\A k \in Keys :
          /\ Len(ReturnedOf(state', k)) = calls'[k].n
          /\ ServedStep(k) =>
                /\ Len(ReturnedOf(state', k)) = Len(ReturnedOf(state, k)) + 1
                /\ SubSeq(ReturnedOf(state', k), 1, Len(ReturnedOf(state, k)))
                       = ReturnedOf(state, k)
                /\ LET last == ReturnedOf(state', k)[Len(ReturnedOf(state, k)) + 1]
                   IN  /\ last.price = result'.price
                       /\ last.timestamp = result'.timestamp
                       /\ last.point_index = result'.point_index
          /\ (result'.op = "get_current_price" /\ result'.outcome = "error") =>
                state' = state
          /\ ReturnedOf(state', k) # ReturnedOf(state, k) =>
                \/ ServedStep(k)
                \/ /\ result'.op = "reset_simulation"
                   /\ Key(result'.symbol, result'.interval) = k
                   /\ ReturnedOf(state', k) = <<>>]_vars

\* A key whose list holds the points of a whole candle and the first point of
\* the next traversal (a candle advance or a wrap has happened), while another
\* key with candle data has no list.
C25_Witness ==
    \E k \in Keys :
        /\ GetOn(k)
        /\ result.outcome = "ok"
        /\ result.point_index = 0
        /\ calls[k].n = NumPoints + 1
        /\ Len(ReturnedOf(state, k)) = NumPoints + 1
        /\ \E k2 \in Keys \ {k} :
               /\ k2 \notin DOMAIN state.price_points_returned
               /\ HasCandleFile(k2[1], k2[2])

(***************************************************************************)
(* SpecRetry: one call of a function wrapped by retry(max_retries, delay)  *)
(* (src/services/utils/retry_decorator.py), statement by statement.        *)
(***************************************************************************)
\* The largest max_retries explored.
MaxRetries == 3

\* The delay arguments explored, in seconds (the defaults of the two
\* decorators).
Delays == {1, 5}

\* The exceptions the except clauses of the two decorators name.
BinanceExceptions == {"BinanceAPIException", "BinanceRequestException"}

\* How a call of the wrapped function, or of client.get_server_time, can end:
\* it returns, or it raises one of the two exceptions or some other one.
CallOutcomes == {"value"} \cup BinanceExceptions \cup {"OtherException"}

\* One entry of events: a call made by the wrapper and how it ended.
CallEvent(call, out) == [call |-> call, out |-> out, secs |-> 0]

\* time.sleep(delay)
SleepEvent(secs) == [call |-> "sleep", out |-> "", secs |-> secs]

\* The entries of events that are calls of call ended as one of outs.
Calls(call, outs) ==
    {i \in 1 .. Len(events) : events[i].call = call /\ events[i].out \in outs}

\* The wrapper returned the value of its k-th call of the wrapped function.
ReturnedValue(k) == [kind |-> "returned", value |-> k, exc |-> NoException]

\* The wrapper returned None.
ReturnedNone == [kind |-> "returned_none", value |-> 0, exc |-> NoException]

\* The wrapper let the exception e out.
Raised(e) == [kind |-> "raised", value |-> 0, exc |-> e]

\* A slip: one attempt too many.
RetriesLeftInclusive(a, n) == a <= n

\* "attempts < max_retries", the test of the while and of the if.
RetriesLeft(a, n) == a < n

InitRetry ==
    /\ max_retries \in 0 .. MaxRetries
    /\ delay \in Delays
    /\ attempts = 0
    /\ wpc = "loop"
    /\ caught = NoException
    /\ events = <<>>
    /\ ended = NotEnded
    /\ GenIdle
    /\ SimIdle
    /\ LoadIdle
    /\ RaceIdle

\* while attempts < max_retries: the wrapper falls off its end, and returns
\* None, when the test fails.
RetryLoop ==
    /\ wpc = "loop"
    /\ IF RetriesLeft(attempts, max_retries)
       THEN wpc' = "try" /\ UNCHANGED ended
       ELSE wpc' = "done" /\ ended' = ReturnedNone
    /\ UNCHANGED <<max_retries, delay, attempts, caught, events>>
    /\ UNCHANGED <<gen_vars, sim_vars, load_vars, race_vars>>

\* try: return func(*args, **kwargs)
RetryTry ==
    /\ wpc = "try"
    /\ \E out \in CallOutcomes :
        LET k == Cardinality(Calls("func", CallOutcomes)) + 1
        IN  /\ events' = Append(events, CallEvent("func", out))
            /\ IF out = "value"
               THEN wpc' = "done" /\ ended' = ReturnedValue(k) /\ UNCHANGED caught
               ELSE IF out \in BinanceExceptions
               THEN wpc' = "except" /\ caught' = [type |-> out, of |-> k] /\ UNCHANGED ended
               ELSE wpc' = "done" /\ ended' = Raised([type |-> out, of |-> k])
                    /\ UNCHANGED caught
    /\ UNCHANGED <<max_retries, delay, attempts>>
    /\ UNCHANGED <<gen_vars, sim_vars, load_vars, race_vars>>

\* except (BinanceAPIException, BinanceRequestException): attempts += 1, then
\* time.sleep(delay) or raise.
RetryExcept ==
    /\ wpc = "except"
    /\ attempts' = attempts + 1
    /\ IF RetriesLeft(attempts', max_retries)
       THEN /\ events' = Append(events, SleepEvent(delay))
            /\ wpc' = "loop"
            /\ caught' = NoException
            /\ UNCHANGED ended
       ELSE /\ wpc' = "done"
            /\ ended' = Raised(caught)
            /\ UNCHANGED <<caught, events>>
    /\ UNCHANGED <<max_retries, delay>>
    /\ UNCHANGED <<gen_vars, sim_vars, load_vars, race_vars>>

NextRetry ==
    \/ RetryLoop
    \/ RetryTry
    \/ RetryExcept

SpecRetry == InitRetry /\ [][NextRetry]_vars

\* The calls of the wrapped function made so far.
Invocations == Cardinality(Calls("func", CallOutcomes))

\* Those that raised one of the two Binance exceptions.
FailedInvocations == Cardinality(Calls("func", BinanceExceptions))

\* C26: a function wrapped with retry(max_retries = n, delay = d), n >= 1, is
\* invoked at least once and at most n times per call; the first invocation
\* that does not raise a Binance API / request exception ends the call at
\* once with its result and no further invocation; if all n invocations
\* raise, the last exception is re-raised; the wrapper sleeps d after each
\* failed attempt except the last.
C26_RetryAtMostN ==
    (wpc # "idle" /\ max_retries >= 1) =>
        /\ Invocations <= max_retries
        /\ wpc = "done" => Invocations >= 1
        /\ \A i \in Calls("func", CallOutcomes \ BinanceExceptions) :
               /\ i = Len(events)
               /\ wpc = "done"
               /\ events[i].out = "value" => ended = ReturnedValue(Invocations)
               /\ events[i].out # "value" =>
                      ended = Raised([type |-> events[i].out, of |-> Invocations])
        /\ (wpc = "done" /\ FailedInvocations = max_retries) =>
               /\ ended = Raised([type |-> events[Len(events)].out, of |-> max_retries])
               /\ events[Len(events)].call = "func"
        /\ \A i \in Calls("sleep", {""}) :
               /\ events[i].secs = delay
               /\ i > 1
               /\ (i - 1) \in Calls("func", BinanceExceptions)
        /\ \A i \in Calls("func", BinanceExceptions) :
               \/ i < Len(events) /\ events[i + 1].call = "sleep"
               \/ i = Len(events) /\ wpc = "except"
               \/ i = Len(events) /\ wpc = "done" /\ FailedInvocations = max_retries

\* Three invocations: two raised and were followed by a sleep each, the third
\* returned and its value is the wrapper's.
C26_Witness ==
    /\ wpc = "done"
    /\ max_retries >= 3
    /\ FailedInvocations = 2
    /\ Cardinality(Calls("sleep", {""})) = 2
    /\ ended = ReturnedValue(3)
    /\ attempts = 2

(***************************************************************************)
(* SpecHealth: one call of a method wrapped by                             *)
(* binance_health_check(max_retries, delay)                                *)
(* (src/services/utils/health_decorator.py), statement by statement.       *)
(***************************************************************************)
InitHealth ==
    /\ max_retries \in 0 .. MaxRetries
    /\ delay \in Delays
    /\ attempts = 0
    /\ wpc = "loop"
    /\ caught = NoException
    /\ events = <<>>
    /\ ended = NotEnded
    /\ GenIdle
    /\ SimIdle
    /\ LoadIdle
    /\ RaceIdle

\* for attempt in range(max_retries): the wrapper falls off its end, and
\* returns None, when the range is exhausted.
HealthLoop ==
    /\ wpc = "loop"
    /\ IF attempts < max_retries
       THEN wpc' = "try" /\ UNCHANGED ended
       ELSE wpc' = "done" /\ ended' = ReturnedNone
    /\ UNCHANGED <<max_retries, delay, attempts, caught, events>>
    /\ UNCHANGED <<gen_vars, sim_vars, load_vars, race_vars>>

\* try: self.client.get_server_time()
HealthTry ==
    /\ wpc = "try"
    /\ \E out \in CallOutcomes :
        LET k == Cardinality(Calls("get_server_time", CallOutcomes)) + 1
        IN  /\ events' = Append(events, CallEvent("get_server_time", out))
            /\ IF out = "value"
               THEN wpc' = "func" /\ UNCHANGED <<caught, ended>>
               ELSE IF out \in BinanceExceptions
               THEN wpc' = "except" /\ caught' = [type |-> out, of |-> k] /\ UNCHANGED ended
               ELSE wpc' = "done" /\ ended' = Raised([type |-> out, of |-> k])
                    /\ UNCHANGED caught
    /\ UNCHANGED <<max_retries, delay, attempts>>
    /\ UNCHANGED <<gen_vars, sim_vars, load_vars, race_vars>>

\* return func(*args, **kwargs), still inside the try block: a Binance
\* exception of the method reaches the same except clause.
HealthFunc ==
    /\ wpc = "func"
    /\ \E out \in CallOutcomes :
        LET k == Cardinality(Calls("func", CallOutcomes)) + 1
        IN  /\ events' = Append(events, CallEvent("func", out))
            /\ IF out = "value"
               THEN wpc' = "done" /\ ended' = ReturnedValue(k) /\ UNCHANGED caught
               ELSE IF out \in BinanceExceptions
               THEN wpc' = "except" /\ caught' = [type |-> out, of |-> k] /\ UNCHANGED ended
               ELSE wpc' = "done" /\ ended' = Raised([type |-> out, of |-> k])
                    /\ UNCHANGED caught
    /\ UNCHANGED <<max_retries, delay, attempts>>
    /\ UNCHANGED <<gen_vars, sim_vars, load_vars, race_vars>>

\* except (BinanceAPIException, BinanceRequestException): time.sleep(delay)
\* and the next attempt, or return None after the last one.
HealthExcept ==
    /\ wpc = "except"
    /\ IF attempts < max_retries - 1
       THEN /\ events' = Append(events, SleepEvent(delay))
            /\ attempts' = attempts + 1
            /\ wpc' = "loop"
            /\ UNCHANGED ended
       ELSE /\ wpc' = "done"
            /\ ended' = ReturnedNone
            /\ UNCHANGED <<attempts, events>>
    /\ caught' = NoException
    /\ UNCHANGED <<max_retries, delay>>
    /\ UNCHANGED <<gen_vars, sim_vars, load_vars, race_vars>>

NextHealth ==
    \/ HealthLoop
    \/ HealthTry
    \/ HealthFunc
    \/ HealthExcept

SpecHealth == InitHealth /\ [][NextHealth]_vars

\* C27: a method wrapped with binance_health_check(max_retries = n) runs only
\* after client.get_server_time succeeded in the same attempt, runs at most
\* once per wrapper call, and when the health check fails in all n attempts
\* the wrapper returns None without having run the method and without raising.
C27_HealthCheckedOnce ==
    (wpc # "idle" /\ max_retries >= 1) =>
        /\ \A i \in Calls("func", CallOutcomes) :
               /\ i > 1
               /\ (i - 1) \in Calls("get_server_time", {"value"})
        /\ Cardinality(Calls("func", CallOutcomes)) <= 1
        /\ (wpc = "done"
            /\ Cardinality(Calls("get_server_time", BinanceExceptions)) = max_retries) =>
               /\ ended = ReturnedNone
               /\ Calls("func", CallOutcomes) = {}

(***************************************************************************)
(* SpecRace: requests of the API that overlap.  get_simulator, a           *)
(* dependency that is an ordinary function, runs in the server's thread    *)
(* pool and builds a PriceSimulator from the state file; the body of the   *)
(* route, a coroutine without an await, then runs on the event loop: it    *)
(* calls the simulator, which opens the state file for writing and dumps   *)
(* its whole dictionary.  Dependencies of other requests run between and   *)
(* during the bodies, bodies run one at a time.                            *)
(***************************************************************************)
\* The requests a run of SpecRace makes.
MaxRaceRequests == 3

\* The keys requested, both with candle data.
RaceRequests == { <<"AVAXUSDT", "1h">>, <<"BTCUSDT", "1h">> }

\* The two routes that use the simulator.
RaceOps == {"get_current_price", "reset_simulation"}

\* The requests in flight at one time.
Slots == {1, 2}

\* A slot without a request.
IdleRequest ==
    [pc |-> "idle", op |-> "", symbol |-> "", interval |-> "", inst |-> DefaultState,
     began |-> 0, candle_index |-> 0, point_index |-> 0]

\* The slots whose request has begun and not ended.
InFlight == {r \in Slots : reqs[r].pc # "idle"}

\* open(self.state_file, 'w'): the file is empty until json.dump has written.
Truncated == [exists |-> TRUE, content |-> BadJson]

InitRace ==
    /\ reqs = [r \in Slots |-> IdleRequest]
    /\ log = <<>>
    /\ file = NoFile
    /\ state = <<>>
    /\ result = <<>>
    /\ fresh = FALSE
    /\ calls = <<>>
    /\ GenIdle
    /\ LoadIdle
    /\ DecIdle

\* A request arrives and get_simulator builds its PriceSimulator: _load_state
\* reads the file as it is at this moment (and writes the default state where
\* it finds no document).  began is the number of requests that had ended.
RaceLoad(r, op, symbol, interval) ==
    /\ reqs[r].pc = "idle"
    /\ \A q \in Slots : q < r => reqs[q].pc # "idle"
    /\ Len(log) + Cardinality(InFlight) < MaxRaceRequests
    /\ LET loaded == LoadState(file)
       IN  /\ file' = loaded.file
           /\ reqs' = [reqs EXCEPT ![r] =
                          [IdleRequest EXCEPT !.pc = "loaded", !.op = op,
                                              !.symbol = symbol, !.interval = interval,
                                              !.inst = loaded.state, !.began = Len(log)]]
    /\ UNCHANGED <<state, result, fresh, calls, log>>
    /\ UNCHANGED <<gen_vars, load_vars, dec_vars>>

\* The body of the route up to the open(..., 'w') of _save_state:
\* get_current_price or reset_simulation on the request's own instance.
RaceServe(r) ==
    /\ reqs[r].pc = "loaded"
    /\ \A q \in Slots : reqs[q].pc # "writing"
    /\ LET q == reqs[r]
           key == Key(q.symbol, q.interval)
           df == LoadCandleData(q.symbol, q.interval).rows
       IN  IF q.op = "get_current_price"
           THEN \E d1 \in DrawsIf(NeedsPoints(q.inst, key, df)) :
                \E d2 \in DrawsIf(Exhausted(q.inst, key, df)) :
                    LET out == Serve(q.inst, key, df, d1, d2)
                    IN  reqs' = [reqs EXCEPT ![r] =
                                    [q EXCEPT !.pc = "writing", !.inst = out.state,
                                              !.candle_index = out.candle_index,
                                              !.point_index = out.point_index]]
           ELSE reqs' = [reqs EXCEPT ![r] =
                            [q EXCEPT !.pc = "writing",
                                      !.inst = ResetKeyState(q.inst, q.symbol, q.interval)]]
    /\ file' = Truncated
    /\ UNCHANGED <<state, result, fresh, calls, log>>
    /\ UNCHANGED <<gen_vars, load_vars, dec_vars>>

\* json.dump(self.state, f) of _save_state, and the response.
RaceDump(r) ==
    /\ reqs[r].pc = "writing"
    /\ file' = SaveState(reqs[r].inst)
    /\ log' = Append(log, [op |-> reqs[r].op, symbol |-> reqs[r].symbol,
                           interval |-> reqs[r].interval,
                           candle_index |-> reqs[r].candle_index,
                           point_index |-> reqs[r].point_index,
                           began |-> reqs[r].began])
    /\ reqs' = [reqs EXCEPT ![r] = IdleRequest]
    /\ UNCHANGED <<state, result, fresh, calls>>
    /\ UNCHANGED <<gen_vars, load_vars, dec_vars>>

NextRace ==
    \/ \E r \in Slots, op \in RaceOps, req \in RaceRequests : RaceLoad(r, op, req[1], req[2])
    \/ \E r \in Slots : RaceServe(r)
    \/ \E r \in Slots : RaceDump(r)

SpecRace == InitRace /\ [][NextRace]_vars

\* The finished requests on key k, and the get_current_price calls among them.
OnKey(k) == {i \in 1 .. Len(log) : Key(log[i].symbol, log[i].interval) = k}

GetsOn(k) == {i \in OnKey(k) : log[i].op = "get_current_price"}

\* The calls on key k are serialized: each began after the ones before it on
\* the key had ended.
SerializedOn(k) ==
    /\ \A i, j \in OnKey(k) : i < j => i <= log[j].began
    /\ \A r \in InFlight :
           Key(reqs[r].symbol, reqs[r].interval) = k =>
               /\ \A i \in OnKey(k) : i <= reqs[r].began
               /\ \A q \in InFlight \ {r} : Key(reqs[q].symbol, reqs[q].interval) # k

\* C21: nothing serializes get_current_price on one key: two calls on a key
\* that interleave can return the same (candle_index, point_index), the
\* persisted cursor ending advanced by one; callers that serialize their calls
\* on a key never observe this - two successive calls of theirs, no reset of
\* the key between, never return the same (candle_index, point_index).
C21_SerializedNeverRepeat ==
    \A k \in Keys :
        SerializedOn(k) =>
            \A i, j \in GetsOn(k) :
                (i < j /\ \A m \in OnKey(k) : ~(i < m /\ m < j)) =>
                    <<log[i].candle_index, log[i].point_index>>
                        # <<log[j].candle_index, log[j].point_index>>

\* The get_current_price calls on key k that ended after the last
\* reset_simulation of k ended.
GetsSinceReset(k) ==
    {i \in GetsOn(k) : \A m \in OnKey(k) : log[m].op = "reset_simulation" => m < i}

\* C22: requests on different keys that overlap in time both keep their
\* effect: once the requests have finished, the persisted record shows for
\* each key, its own calls being serialized, the progress of every
\* get_current_price made on it since its last reset - a get_current_price or
\* reset_simulation on one key never undoes progress of another key.
C22_BothKeepEffect ==
    (InFlight = {} /\ log # <<>>) =>
        \A k \in Keys :
            SerializedOn(k) =>
                Len(ReturnedOf(file.content, k)) = Cardinality(GetsSinceReset(k))

====
